---- MODULE Spec2Model ----
(***************************************************************************)
(* Model of build_styled_content (tui/src/utils.rs): one forward scan over *)
(* the characters of a text and a queue of captures handed out by the      *)
(* highlighter, producing styled lines made of spans.                      *)
(*                                                                         *)
(* Character indices are 0-based as in the code; TLA+ sequences are        *)
(* 1-based, so the character at index i is content[i + 1].                 *)
(***************************************************************************)
EXTENDS Integers, Sequences, FiniteSets, TLC

\* ---------------------------------------------------------------- bounds
MaxLen == 3
MaxCaptures == 2

Chars == {"a", "b", "\n"}
CaptureStyles == {"S1", "S2"}

\* Span::from(..).fg(colors.normal.white)
NormalWhite == "fg_normal_white"
\* String::into::<Span>() is Span::raw: Style::default()
Unstyled == "style_default"
\* both renderings of text that no capture styles
DefaultStyles == {NormalWhite, Unstyled}

\* ------------------------------------------------------------ Option<T>
None == <<>>
Some(x) == <<x>>
IsSome(o) == Len(o) = 1
Unwrap(o) == o[1]

\* VecDeque::pop_front: the value popped and the rest of the queue
PopFrontValue(q) == IF q = <<>> THEN None ELSE Some(Head(q))
PopFrontRest(q) == IF q = <<>> THEN <<>> ELSE Tail(q)

\* ------------------------------------------------------------- helpers
is_endline(c) == c = "\n"

\* Span { content, style }
Span(text, style) == [content |-> text, style |-> style]

RECURSIVE TextsOfLen(_)
TextsOfLen(n) ==
    IF n = 0 THEN {<<>>}
    ELSE {Append(t, c) : t \in TextsOfLen(n - 1), c \in Chars}

Texts == UNION {TextsOfLen(n) : n \in 0..MaxLen}

\* Capture { start, end, style } as returned by the highlighter; endpoints
\* range one past the text length so that out-of-range ends occur.
Captures(len) ==
    [start : 0..(len + 1), end : 0..(len + 1), style : CaptureStyles]

\* a capture that is a range: start before end
IsRange(c) == c.start < c.end

\* queues of exactly n ranges, each beginning at or after the end of the
\* one before it (sorted by start, non-overlapping)
\* the ranges that may follow queue q: they begin at or after its last end
Following(q, len) ==
    {d \in Captures(len) :
        /\ IsRange(d)
        /\ q # <<>> => q[Len(q)].end <= d.start}

RECURSIVE RangeQueues(_, _)
RangeQueues(n, len) ==
    IF n = 0 THEN {<<>>}
    ELSE UNION {{Append(q, c) : c \in Following(q, len)} :
                    q \in RangeQueues(n - 1, len)}

\* what HIGHLIGHTER.apply may hand out for a text of the given length: the
\* ordered queues of ranges, whose ends may lie past the text, and the
\* queues of one capture with any endpoints at all
Queues(len) ==
    UNION {RangeQueues(n, len) : n \in 0..MaxCaptures}
        \cup {<<c>> : c \in Captures(len)}

Ordered(q) ==
    \A k \in 1..(Len(q) - 1) :
        /\ q[k].end <= q[k + 1].start
        /\ q[k].start <= q[k + 1].start

\* data-model invariant of the annotation queue: sorted, non-overlapping,
\* start < end, both endpoints inside 0..len
WellFormed(q, len) ==
    /\ Ordered(q)
    /\ \A k \in 1..Len(q) : IsRange(q[k]) /\ q[k].end <= len

\* ------------------------------------------------------------ scan state
\* st = [capture, highlights, token, line, lines]: current_capture,
\* highlights, current_token, current_line, styled_lines

\* line 29-31
CaptureStartEmpty(st, c) ==
    [st EXCEPT !.token = Append(@, c)]

\* line 33-37 without the flush of the text before the capture
CaptureStartFlush_NoFlush(st, c) ==
    [st EXCEPT !.token = Append(@, c)]

\* line 33-37
CaptureStartFlush(st, c) ==
    [st EXCEPT !.line = Append(@, Span(st.token, NormalWhite)),
               !.token = <<c>>]

\* line 39-46
CaptureEndNewline(st, c) ==
    [st EXCEPT !.lines = Append(@, Append(st.line,
                              Span(st.token, Unwrap(st.capture).style))),
               !.token = <<>>,
               !.line = <<>>,
               !.capture = PopFrontValue(st.highlights),
               !.highlights = PopFrontRest(st.highlights)]

\* line 49-54 without the pop of the next capture
CaptureEnd_NoPop(st, c) ==
    [st EXCEPT !.line = Append(@, Span(st.token, Unwrap(st.capture).style)),
               !.token = <<c>>]

\* line 49-54
CaptureEnd(st, c) ==
    [st EXCEPT !.line = Append(@, Span(st.token, Unwrap(st.capture).style)),
               !.token = <<c>>,
               !.capture = PopFrontValue(st.highlights),
               !.highlights = PopFrontRest(st.highlights)]

\* line 57-63 with the capture given up at the line break
CaptureNewline_Pops(st, c) ==
    [st EXCEPT !.lines = Append(@, Append(st.line,
                              Span(st.token, Unwrap(st.capture).style))),
               !.token = <<>>,
               !.line = <<>>,
               !.capture = PopFrontValue(st.highlights),
               !.highlights = PopFrontRest(st.highlights)]

\* line 57-63
CaptureNewline(st, c) ==
    [st EXCEPT !.lines = Append(@, Append(st.line,
                              Span(st.token, Unwrap(st.capture).style))),
               !.token = <<>>,
               !.line = <<>>]

\* line 66-67
CapturePush(st, c) ==
    [st EXCEPT !.token = Append(@, c)]

\* line 70-74 with the character added to the token instead of a flush
PlainFlush_Accumulate(st, c) ==
    [st EXCEPT !.token = Append(@, c)]

\* line 70-74
PlainFlush(st, c) ==
    [st EXCEPT !.line = Append(@, Span(st.token, NormalWhite)),
               !.token = <<c>>]

\* line 77-83
PlainNewline(st, c) ==
    [st EXCEPT !.lines = Append(@, Append(st.line,
                              Span(st.token, NormalWhite))),
               !.token = <<>>,
               !.line = <<>>]

\* line 86
PlainPush(st, c) ==
    [st EXCEPT !.token = Append(@, c)]

\* line 89-90 with the trailing span given the style of the current capture
FinalFlush_CaptureStyle(st) ==
    LET style == IF IsSome(st.capture) THEN Unwrap(st.capture).style
                 ELSE Unstyled
    IN  [st EXCEPT !.line = Append(@, Span(st.token, style)),
                   !.lines = Append(@, Append(st.line, Span(st.token, style)))]

\* line 89-90
FinalFlush(st) ==
    [st EXCEPT !.line = Append(@, Span(st.token, Unstyled)),
               !.lines = Append(@, Append(st.line, Span(st.token, Unstyled)))]

\* the branches with the end of a capture taken as its last character
Branch_EndInclusive(st, i, c) ==
    IF IsSome(st.capture)
    THEN LET capture == Unwrap(st.capture)
         IN  IF i = capture.start /\ st.token = <<>> THEN "CaptureStartEmpty"
             ELSE IF i = capture.start /\ st.token # <<>> THEN "CaptureStartFlush"
             ELSE IF i = capture.end - 1 /\ is_endline(c) THEN "CaptureEndNewline"
             ELSE IF i = capture.end - 1 THEN "CaptureEnd"
             ELSE IF is_endline(c) THEN "CaptureNewline"
             ELSE "CapturePush"
    ELSE IF st.token # <<>> /\ ~is_endline(c) THEN "PlainFlush"
         ELSE IF is_endline(c) THEN "PlainNewline"
         ELSE "PlainPush"

\* the branch of the loop body taken for character c at index i
Branch(st, i, c) ==
    IF IsSome(st.capture)
    THEN LET capture == Unwrap(st.capture)
         IN  IF i = capture.start /\ st.token = <<>> THEN "CaptureStartEmpty"
             ELSE IF i = capture.start /\ st.token # <<>> THEN "CaptureStartFlush"
             ELSE IF i = capture.end /\ is_endline(c) THEN "CaptureEndNewline"
             ELSE IF i = capture.end THEN "CaptureEnd"
             ELSE IF is_endline(c) THEN "CaptureNewline"
             ELSE "CapturePush"
    ELSE IF st.token # <<>> /\ ~is_endline(c) THEN "PlainFlush"
         ELSE IF is_endline(c) THEN "PlainNewline"
         ELSE "PlainPush"

\* one iteration of the loop at line 27
LoopBody(st, i, c) ==
    LET b == Branch(st, i, c)
    IN  CASE b = "CaptureStartEmpty" -> CaptureStartEmpty(st, c)
          [] b = "CaptureStartFlush" -> CaptureStartFlush(st, c)
          [] b = "CaptureEndNewline" -> CaptureEndNewline(st, c)
          [] b = "CaptureEnd"        -> CaptureEnd(st, c)
          [] b = "CaptureNewline"    -> CaptureNewline(st, c)
          [] b = "CapturePush"       -> CapturePush(st, c)
          [] b = "PlainFlush"        -> PlainFlush(st, c)
          [] b = "PlainNewline"      -> PlainNewline(st, c)
          [] b = "PlainPush"         -> PlainPush(st, c)

\* line 22-25
ScanStart(q) ==
    [capture |-> PopFrontValue(q), highlights |-> PopFrontRest(q),
     token |-> <<>>, line |-> <<>>, lines |-> <<>>]

RECURSIVE ScanFrom(_, _, _)
ScanFrom(st, text, i) ==
    IF i >= Len(text) THEN st
    ELSE ScanFrom(LoopBody(st, i, text[i + 1]), text, i + 1)

\* the whole function: the lines returned for a text and the queue the
\* highlighter returned for it
build_styled_content(text, q) ==
    FinalFlush(ScanFrom(ScanStart(q), text, 0)).lines

\* ----------------------------------------------------------------- state
VARIABLES
    content,           \* the text argument
    captures,          \* the queue HIGHLIGHTER.apply returned (kept for reference)
    highlights,        \* the queue, front removed as captures become current
    current_capture,   \* Option<Capture>
    current_token,     \* String
    current_line,      \* Vec<Span>
    styled_lines,      \* Vec<Line>
    i,                 \* index of the next character of the scan
    lock,              \* the RwLock around HIGHLIGHTER: "free", "read", "write"
    applied,           \* calls of HIGHLIGHTER.apply made so far
    pc                 \* "read", "apply", "drop", "init", "scan", "done";
                       \* "idle" while no build is under way

scanVars == <<content, captures, highlights, current_capture, current_token,
              current_line, styled_lines, i, lock, applied, pc>>

St == [capture |-> current_capture, highlights |-> highlights,
       token |-> current_token, line |-> current_line, lines |-> styled_lines]

SetSt(st) ==
    /\ current_capture' = st.capture
    /\ highlights' = st.highlights
    /\ current_token' = st.token
    /\ current_line' = st.line
    /\ styled_lines' = st.lines

\* ===================================================== the user interface
\* ScreenManager (tui/src/screen_manager.rs) and the Dashboard it owns
\* (tui/src/components/dashboard/dashboard.rs).

MaxSchemas == 2
MaxText == 1

\* characters of schema names; d sorts before n
NameChars == {"d", "n"}
CharRank(c) == IF c = "d" THEN 1 ELSE 2

\* names for schemas, and the ones the schemas on disk and in commands have
AllNames == <<<<"d">>, <<"n">>, <<"d", "n">>, <<"n", "d">>>>
SchemaNames == {AllNames[k] : k \in 1..(IF MaxSchemas <= Len(AllNames)
                                        THEN MaxSchemas ELSE Len(AllNames))}

RECURSIVE NameLess(_, _)
\* String's ordering: lexicographic, a proper prefix first
NameLess(a, b) ==
    IF b = <<>> THEN FALSE
    ELSE IF a = <<>> THEN TRUE
    ELSE IF a[1] # b[1] THEN CharRank(a[1]) < CharRank(b[1])
    ELSE NameLess(Tail(a), Tail(b))

RECURSIVE SortedListsOfLen(_)
\* the lists of n schemas in ascending order of name
SortedListsOfLen(n) ==
    IF n = 0 THEN {<<>>}
    ELSE UNION {{Append(l, s) : s \in {t \in SchemaNames :
                                         l # <<>> => NameLess(l[Len(l)], t)}} :
                    l \in SortedListsOfLen(n - 1)}

\* what schema::get_schemas()? followed by the sort of line 65 may give
SortedSchemaLists == UNION {SortedListsOfLen(n) : n \in 0..MaxSchemas}

\* str::contains on names
Contains(name, pat) ==
    \E k \in 0..(Len(name) - Len(pat)) :
        \A j \in 1..Len(pat) : name[k + j] = pat[j]

RECURSIVE FilterSeq(_, _)
\* the schemas of a list whose name contains the filter, in order
FilterSeq(list, pat) ==
    IF list = <<>> THEN <<>>
    ELSE IF Contains(list[1], pat) THEN <<list[1]>> \o FilterSeq(Tail(list), pat)
    ELSE FilterSeq(Tail(list), pat)

\* Vec::remove at a 0-based index
RemoveAt(list, idx) ==
    SubSeq(list, 1, idx) \o SubSeq(list, idx + 2, Len(list))

\* String::pop
PopChar(str) == IF str = <<>> THEN <<>> ELSE SubSeq(str, 1, Len(str) - 1)

\* usize::saturating_sub
SaturatingSub(a, b) == IF a >= b THEN a - b ELSE 0

Min(a, b) == IF a <= b THEN a ELSE b

\* terminal sizes, and the items per row the schema list shows in each
Sizes == {"narrow", "wide"}
ItemsPerRow(size) == IF size = "narrow" THEN 1 ELSE 2

\* ------------------------------------------------------------------ keys
Key(code, ch, ctrl) == [code |-> code, ch |-> ch, ctrl |-> ctrl]
CharKey(ch) == Key("Char", ch, FALSE)
Enter == Key("Enter", "", FALSE)
Esc == Key("Esc", "", FALSE)
Backspace == Key("Backspace", "", FALSE)
Tab == Key("Tab", "", FALSE)
CtrlC == Key("Char", "c", TRUE)
\* a key no handler names
OtherKey == Key("F1", "", FALSE)

ControlKeys == {Enter, Esc, Backspace, Tab, CtrlC, OtherKey}

\* the characters some handler names
CommandChars == {"d", "n", "c", "h", "j", "k", "l", "?", "/", "q", "y", "o"}

\* every key the model presses
Keys == ControlKeys \cup {CharKey(ch) : ch \in CommandChars}

\* the keys pressed while text is typed: every character is typed the same
\* way, so one character stands for all of them
TypedChars == {"d"}
TypingKeys == ControlKeys \cup {CharKey(ch) : ch \in TypedChars}

IsChar(key, ch) == key.code = "Char" /\ key.ch = ch

\* -------------------------------------------------------------- commands
SelectSchema(schema) == [cmd |-> "SelectSchema", arg |-> schema]
CreateSchema(schema) == [cmd |-> "CreateSchema", arg |-> schema]
ErrorCommand(msg) == [cmd |-> "Error", arg |-> msg]
Quit == [cmd |-> "Quit", arg |-> <<>>]

ErrorMessages == {<<"e">>}

Commands ==
    {SelectSchema(s) : s \in SchemaNames}
        \cup {CreateSchema(s) : s \in SchemaNames}
        \cup {ErrorCommand(m) : m \in ErrorMessages}
        \cup {Quit}

\* ---------------------------------------------------------------- panics
NoPanic == "none"
ExpectSelectExisting ==
    "user should never be allowed to select a non existing schema"
ExpectDeleteSelected ==
    "deleting when nothing is selected should never happen"
ExpectDeleteExisting ==
    "should never attempt to delete a non existing item"
ExpectPopupSelected ==
    "attempted to open confirm popup without an item selected"
ExpectPopupInBounds ==
    "should never be able to have an out of bounds selection"
ExpectSender == "should always have a sender at this point"
SubtractOverflow == "attempt to subtract with overflow"
UnwrapNone == "called Option::unwrap() on a None value"

\* what a handler leaves behind: the dashboard, the value returned, and the
\* panic that ended it, if any
Returns(d, ret) == [d |-> d, ret |-> ret, panic |-> NoPanic]
Panics(d, msg) == [d |-> d, ret |-> None, panic |-> msg]

\* ------------------------------------------------------------- Dashboard
\* FormState::default()
FormDefault == [focused_field |-> "Name", name |-> <<>>, description |-> <<>>]

\* SchemaListState: the items shown and the index selected among them
SchemaListState_new(items) == [items |-> items, selected |-> None]
select(d, index) == [d EXCEPT !.list_state.selected = index]
selected(d) == d.list_state.selected
set_items(d, items) == [d EXCEPT !.list_state.items = items]

\* Dashboard::new, line 63-85
Dashboard_new(schemas, size) ==
    [layout |-> size,
     schemas |-> schemas,
     list_state |-> IF schemas # <<>>
                    THEN [SchemaListState_new(schemas) EXCEPT
                              !.selected = Some(0)]
                    ELSE SchemaListState_new(schemas),
     form_state |-> FormDefault,
     show_list_keymaps |-> FALSE,
     show_filter |-> FALSE,
     filter |-> <<>>,
     pane_focus |-> "List",
     prompt_delete_current |-> FALSE,
     sender |-> FALSE,
     show_error_popup |-> FALSE,
     error_message |-> <<>>]

\* line 87-92
display_error(d, message) ==
    [d EXCEPT !.show_error_popup = TRUE,
              !.error_message = message,
              !.prompt_delete_current = FALSE,
              !.pane_focus = "List"]

\* line 94-102
filter_list(d) == set_items(d, FilterSeq(d.schemas, d.filter))

\* line 104-128
handle_filter_key_event(d, key) ==
    IF (IsChar(key, "c") /\ key.ctrl) \/ key.code = "Esc"
    THEN filter_list([d EXCEPT !.show_filter = FALSE, !.filter = <<>>])
    ELSE IF key.code = "Backspace"
    THEN filter_list([d EXCEPT !.show_filter = IF d.filter = <<>> THEN FALSE
                                               ELSE @,
                               !.filter = PopChar(@)])
    ELSE IF key.code = "Enter"
    THEN filter_list([d EXCEPT !.show_filter = FALSE])
    ELSE IF key.code = "Char"
    THEN filter_list([d EXCEPT !.filter = Append(@, key.ch)])
    ELSE d

\* schemas.get(i) of line 140, 256, 407
Get(list, idx) == IF idx < Len(list) THEN Some(list[idx + 1]) ELSE None

\* self.schemas.len() - 1 of line 160 and 175 in usize: the values it can
\* take, or the overflow panic of a build with overflow checks; a build
\* without them wraps to usize::MAX, which is above every index
LenMinusOne(list) ==
    IF list # <<>> THEN {[panic |-> NoPanic, wraps |-> FALSE, value |-> Len(list) - 1]}
    ELSE {[panic |-> SubtractOverflow, wraps |-> FALSE, value |-> 0],
          [panic |-> NoPanic, wraps |-> TRUE, value |-> 0]}

\* usize::min(self.schemas.len() - 1, target) for each outcome of the
\* subtraction
MoveForward(d, target) ==
    {IF r.panic # NoPanic THEN Panics(d, r.panic)
     ELSE Returns(select(d, Some(IF r.wraps THEN target
                                 ELSE Min(r.value, target))), None) :
        r \in LenMinusOne(d.schemas)}

\* line 130-184
handle_list_key_event(d, key) ==
    IF key.code = "Enter"
    THEN IF d.schemas # <<>>
         THEN IF selected(d) # None /\ Get(d.schemas, Unwrap(selected(d))) # None
              THEN {Returns(d, Some(SelectSchema(
                                  Unwrap(Get(d.schemas, Unwrap(selected(d)))))))}
              ELSE {Panics(d, ExpectSelectExisting)}
         ELSE {Returns(d, None)}
    ELSE IF IsChar(key, "d")
    THEN {Returns([d EXCEPT !.prompt_delete_current = TRUE], None)}
    ELSE IF IsChar(key, "n") \/ IsChar(key, "c")
    THEN {Returns([d EXCEPT !.pane_focus = "Form"], None)}
    ELSE IF IsChar(key, "h")
    THEN {Returns(select(d, IF selected(d) # None
                            THEN Some(SaturatingSub(Unwrap(selected(d)), 1))
                            ELSE Some(0)), None)}
    ELSE IF IsChar(key, "j")
    THEN IF selected(d) # None
         THEN MoveForward(d, Unwrap(selected(d)) + ItemsPerRow(d.layout))
         ELSE {Returns(select(d, Some(0)), None)}
    ELSE IF IsChar(key, "k")
    THEN {Returns(select(d, IF selected(d) # None
                            THEN Some(SaturatingSub(Unwrap(selected(d)),
                                                    ItemsPerRow(d.layout)))
                            ELSE Some(0)), None)}
    ELSE IF IsChar(key, "l")
    THEN IF selected(d) # None
         THEN MoveForward(d, Unwrap(selected(d)) + 1)
         ELSE {Returns(select(d, Some(0)), None)}
    ELSE IF IsChar(key, "?")
    THEN {Returns([d EXCEPT !.show_list_keymaps = TRUE], None)}
    ELSE IF IsChar(key, "/")
    THEN {Returns([d EXCEPT !.show_filter = TRUE], None)}
    ELSE IF IsChar(key, "q")
    THEN {Returns(d, Some(Quit))}
    ELSE {Returns(d, None)}

\* the next field of the form, line 188-193
NextField(f) ==
    CASE f = "Name" -> "Description"
      [] f = "Description" -> "Confirm"
      [] f = "Confirm" -> "Cancel"
      [] f = "Cancel" -> "Name"

\* line 186-244; the task spawned at line 209 answers later with a
\* CreateSchema or an Error command
handle_form_key_event(d, key) ==
    LET f == d.form_state.focused_field
    IN  IF key.code = "Tab"
        THEN Returns([d EXCEPT !.form_state.focused_field = NextField(f)], None)
        ELSE IF key.code = "Char"
        THEN IF f = "Name"
             THEN Returns([d EXCEPT !.form_state.name = Append(@, key.ch)], None)
             ELSE IF f = "Description"
             THEN Returns([d EXCEPT !.form_state.description =
                                        Append(@, key.ch)], None)
             ELSE Returns(d, None)
        ELSE IF key.code = "Enter"
        THEN IF f = "Confirm"
             THEN IF d.sender THEN Returns(d, None)
                  ELSE Panics(d, ExpectSender)
             ELSE IF f = "Cancel"
             THEN Returns([d EXCEPT !.pane_focus = "List",
                                    !.form_state = FormDefault], None)
             ELSE Returns(d, None)
        ELSE IF key.code = "Backspace"
        THEN IF f = "Name"
             THEN Returns([d EXCEPT !.form_state.name = PopChar(@)], None)
             ELSE IF f = "Description"
             THEN Returns([d EXCEPT !.form_state.description = PopChar(@)], None)
             ELSE Returns(d, None)
        ELSE Returns(d, None)

\* line 247-279
handle_confirm_popup_key_event(d, key) ==
    IF IsChar(key, "y")
    THEN IF selected(d) = None THEN Panics(d, ExpectDeleteSelected)
         ELSE IF Get(d.schemas, Unwrap(selected(d))) = None
         THEN Panics(d, ExpectDeleteExisting)
         ELSE LET removed == RemoveAt(d.schemas, Unwrap(selected(d)))
              IN  Returns([select(set_items(d, removed), None) EXCEPT
                               !.schemas = removed,
                               !.prompt_delete_current = FALSE], None)
    ELSE IF IsChar(key, "n")
    THEN Returns([d EXCEPT !.prompt_delete_current = FALSE], None)
    ELSE Returns(d, None)

\* line 281-290
handle_error_popup_key_event(d, key) ==
    IF IsChar(key, "o") \/ key.code = "Esc" \/ key.code = "Enter"
    THEN Returns([d EXCEPT !.show_error_popup = FALSE], None)
    ELSE Returns(d, None)

\* line 429-454 with the error popup asked first
Route_ErrorFirst(d) ==
    IF d.show_error_popup THEN "error"
    ELSE IF d.show_list_keymaps THEN "help"
    ELSE IF d.show_filter THEN "filter"
    ELSE IF d.prompt_delete_current THEN "confirm"
    ELSE IF d.pane_focus = "List" THEN "list"
    ELSE "form"

\* line 429-454: the handler a key goes to
Route(d) ==
    IF d.show_list_keymaps THEN "help"
    ELSE IF d.show_filter THEN "filter"
    ELSE IF d.prompt_delete_current THEN "confirm"
    ELSE IF d.show_error_popup THEN "error"
    ELSE IF d.pane_focus = "List" THEN "list"
    ELSE "form"

\* line 429-454: the outcomes of one key event
handle_key_event(d, key) ==
    LET r == Route(d)
    IN  CASE r = "help" ->
               {Returns([d EXCEPT !.show_list_keymaps = FALSE], None)}
          [] r = "filter" ->
               {Returns(handle_filter_key_event(d, key), None)}
          [] r = "confirm" ->
               {[handle_confirm_popup_key_event(d, key) EXCEPT !.ret = None]}
          [] r = "error" ->
               {[handle_error_popup_key_event(d, key) EXCEPT !.ret = None]}
          [] r = "list" -> handle_list_key_event(d, key)
          [] r = "form" -> {handle_form_key_event(d, key)}

\* Dashboard::draw, line 358-423: the panic it ends in, if any
Dashboard_draw(d) ==
    IF d.prompt_delete_current
    THEN IF selected(d) = None THEN ExpectPopupSelected
         ELSE IF Get(d.schemas, Unwrap(selected(d))) = None
         THEN ExpectPopupInBounds
         ELSE NoPanic
    ELSE NoPanic

\* the characters typed so far stay within the number the model types, and a
\* selection that ran past an empty list within the number of schemas
WithinText(d) ==
    /\ Len(d.filter) + Len(d.form_state.name)
           + Len(d.form_state.description) <= MaxText
    /\ selected(d) # None => Unwrap(selected(d)) <= MaxSchemas

\* -------------------------------------------------------- ScreenManager
\* line 44-55: the screen after a command
handle_command_Screen(command, screen) ==
    IF command.cmd \in {"SelectSchema", "CreateSchema"} THEN "Editor"
    ELSE screen

\* line 46-49 with the editor built for SelectSchema only
handle_command_Editor_SelectOnly(command, ed, size) ==
    IF command.cmd = "SelectSchema"
    THEN Some([schema |-> command.arg, size |-> size])
    ELSE ed

\* line 44-55: the editor after a command; ApiExplorer::new(size, schema)
handle_command_Editor(command, ed, size) ==
    IF command.cmd \in {"SelectSchema", "CreateSchema"}
    THEN Some([schema |-> command.arg, size |-> size])
    ELSE ed

\* line 50-52: the dashboard after a command
handle_command_Dashboard(command, d) ==
    IF command.cmd = "Error" THEN display_error(d, command.arg) ELSE d

VARIABLES
    cur_screen,        \* ScreenManager.cur_screen: "Dashboard" or "Editor"
    editor,            \* ScreenManager.editor: Option<ApiExplorer>
    size,              \* ScreenManager.size
    dashboard,         \* ScreenManager.dashboard
    returned,          \* the value the last update call returned
    panic              \* the panic that ended the program, or "none"

uiVars == <<cur_screen, editor, size, dashboard, returned, panic>>

vars == <<scanVars, uiVars>>

\* ScreenManager::new, line 24-31
ScreenManager_new(schemas, sz) ==
    /\ cur_screen = "Dashboard"
    /\ editor = None
    /\ size = sz
    /\ dashboard = Dashboard_new(schemas, sz)
    /\ returned = None
    /\ panic = NoPanic

\* the user interface while a build is followed: freshly built, no schemas
UiAtRest == ScreenManager_new(<<>>, "narrow")

Init ==
    /\ UiAtRest
    /\ content \in Texts
    /\ captures = <<>>
    /\ highlights = <<>>
    /\ current_capture = None
    /\ current_token = <<>>
    /\ current_line = <<>>
    /\ styled_lines = <<>>
    /\ i = 0
    /\ lock = "free"
    /\ applied = 0
    /\ pc = "read"

\* RwLock::read: a reader gets in when no writer holds the lock
AcquireRead(l) == IF l = "write" THEN l ELSE "read"

\* the guard returned by read() is a temporary of the let statement and is
\* dropped at its end (line 20) with the guard kept alive instead
DropGuard_Kept(l) == l

\* the guard returned by read() is a temporary of the let statement and is
\* dropped at its end (line 20)
DropGuard(l) == "free"

\* line 17-19: HIGHLIGHTER.read().unwrap()
ReadLock ==
    /\ pc = "read"
    /\ lock # "write"
    /\ lock' = AcquireRead(lock)
    /\ pc' = "apply"
    /\ UNCHANGED <<content, captures, highlights, current_capture,
                   current_token, current_line, styled_lines, i, applied>>
    /\ UNCHANGED uiVars

\* line 20: the highlighter hands out the queue of captures
Apply ==
    /\ pc = "apply"
    /\ \E q \in Queues(Len(content)) :
          /\ captures' = q
          /\ highlights' = q
    /\ applied' = applied + 1
    /\ pc' = "drop"
    /\ UNCHANGED <<content, current_capture, current_token, current_line,
                   styled_lines, i, lock>>
    /\ UNCHANGED uiVars

\* line 20, end of the statement: the read guard goes away
ReleaseLock ==
    /\ pc = "drop"
    /\ lock' = DropGuard(lock)
    /\ pc' = "init"
    /\ UNCHANGED <<content, captures, highlights, current_capture,
                   current_token, current_line, styled_lines, i, applied>>
    /\ UNCHANGED uiVars

\* line 22-25: empty accumulators, first capture popped
InitScan ==
    /\ pc = "init"
    /\ SetSt(ScanStart(highlights))
    /\ pc' = "scan"
    /\ UNCHANGED <<content, captures, i, lock, applied>>
    /\ UNCHANGED uiVars

\* the loop at line 27 is at character i, and its body takes branch b
AtBranch(b) ==
    /\ pc = "scan"
    /\ i < Len(content)
    /\ Branch(St, i, content[i + 1]) = b

\* continue: on to the next character
Continue ==
    /\ i' = i + 1
    /\ UNCHANGED <<content, captures, lock, applied, pc>>
    /\ UNCHANGED uiVars

\* line 29-31
StepCaptureStartEmpty ==
    /\ AtBranch("CaptureStartEmpty")
    /\ SetSt(CaptureStartEmpty(St, content[i + 1]))
    /\ Continue

\* line 33-37
StepCaptureStartFlush ==
    /\ AtBranch("CaptureStartFlush")
    /\ SetSt(CaptureStartFlush(St, content[i + 1]))
    /\ Continue

\* line 39-46
StepCaptureEndNewline ==
    /\ AtBranch("CaptureEndNewline")
    /\ SetSt(CaptureEndNewline(St, content[i + 1]))
    /\ Continue

\* line 49-54
StepCaptureEnd ==
    /\ AtBranch("CaptureEnd")
    /\ SetSt(CaptureEnd(St, content[i + 1]))
    /\ Continue

\* line 57-63
StepCaptureNewline ==
    /\ AtBranch("CaptureNewline")
    /\ SetSt(CaptureNewline(St, content[i + 1]))
    /\ Continue

\* line 66-67
StepCapturePush ==
    /\ AtBranch("CapturePush")
    /\ SetSt(CapturePush(St, content[i + 1]))
    /\ Continue

\* line 70-74
StepPlainFlush ==
    /\ AtBranch("PlainFlush")
    /\ SetSt(PlainFlush(St, content[i + 1]))
    /\ Continue

\* line 77-83
StepPlainNewline ==
    /\ AtBranch("PlainNewline")
    /\ SetSt(PlainNewline(St, content[i + 1]))
    /\ Continue

\* line 86
StepPlainPush ==
    /\ AtBranch("PlainPush")
    /\ SetSt(PlainPush(St, content[i + 1]))
    /\ Continue

\* line 89-92: the loop is over, trailing flush and return
Finish ==
    /\ pc = "scan"
    /\ i = Len(content)
    /\ SetSt(FinalFlush(St))
    /\ pc' = "done"
    /\ UNCHANGED <<content, captures, i, lock, applied>>
    /\ UNCHANGED uiVars

Next ==
    \/ ReadLock
    \/ Apply
    \/ ReleaseLock
    \/ InitScan
    \/ StepCaptureStartEmpty
    \/ StepCaptureStartFlush
    \/ StepCaptureEndNewline
    \/ StepCaptureEnd
    \/ StepCaptureNewline
    \/ StepCapturePush
    \/ StepPlainFlush
    \/ StepPlainNewline
    \/ StepPlainPush
    \/ Finish

Spec == Init /\ [][Next]_vars

\* ------------------------------------------------- reading the result
Done == pc = "done"

TextLen == Len(content)

RECURSIVE Concat(_, _)
\* the texts of the first n spans of a line, concatenated
Concat(line, n) ==
    IF n = 0 THEN <<>> ELSE Concat(line, n - 1) \o line[n].content

LineText(line) == Concat(line, Len(line))

\* one cell per character of a span, remembering where it was emitted
CellsOfSpan(span, ln, sp) ==
    [k \in 1..Len(span.content) |->
        [ch |-> span.content[k], style |-> span.style, ln |-> ln, sp |-> sp]]

RECURSIVE CellsOfLine(_, _, _)
CellsOfLine(line, ln, n) ==
    IF n = 0 THEN <<>>
    ELSE CellsOfLine(line, ln, n - 1) \o CellsOfSpan(line[n], ln, n)

\* the line break a renderer puts between line ln and the next one
Separator(ln) == [ch |-> "\n", style |-> "separator", ln |-> ln, sp |-> 0]

RECURSIVE CellsOfLines(_, _)
CellsOfLines(lines, n) ==
    IF n = 0 THEN <<>>
    ELSE IF n = 1 THEN CellsOfLine(lines[1], 1, Len(lines[1]))
    ELSE CellsOfLines(lines, n - 1) \o <<Separator(n - 1)>>
             \o CellsOfLine(lines[n], n, Len(lines[n]))

\* the rendered text, character by character: cell idx + 1 is the
\* rendering of the character at index idx
Cells(lines) == CellsOfLines(lines, Len(lines))

Rendered(lines) == [k \in 1..Len(Cells(lines)) |-> Cells(lines)[k].ch]

IsSeparator(cell) == cell.sp = 0

\* the character at index idx came out inside a span
Emitted(lines, idx) ==
    /\ idx + 1 <= Len(Cells(lines))
    /\ ~IsSeparator(Cells(lines)[idx + 1])

Covers(capture, idx) == capture.start <= idx /\ idx < capture.end

\* the captures of the queue that cover index idx, by position in the queue
Coverage(q, idx) == {k \in 1..Len(q) : Covers(q[k], idx)}

Spans(lines) ==
    UNION {{lines[l][s] : s \in 1..Len(lines[l])} : l \in 1..Len(lines)}

HasLineBreak(text) == \E k \in 1..Len(text) : is_endline(text[k])

LineBreaks(text) == Cardinality({k \in 1..Len(text) : is_endline(text[k])})

EndsOnLineBreak(text) == text # <<>> /\ is_endline(text[Len(text)])

RECURSIVE SplitLines(_, _)
\* the pieces of the first n characters of a text between its line breaks
SplitLines(text, n) ==
    IF n = 0 THEN <<<<>>>>
    ELSE LET before == SplitLines(text, n - 1)
         IN  IF is_endline(text[n]) THEN Append(before, <<>>)
             ELSE [before EXCEPT ![Len(before)] = Append(@, text[n])]

LineTexts(lines) == [l \in 1..Len(lines) |-> LineText(lines[l])]

\* ----------------------------------------------------------------- claims

\* C1: joining the span texts of every returned line, with one line break
\* between consecutive lines, gives back the text exactly, and for a text
\* ending on a line break the last line is an empty one.  Stated for the
\* well-formed queues, which are among the queues the claim speaks of.
C1_Reconstruction ==
    (Done /\ WellFormed(captures, TextLen)) =>
        /\ Rendered(styled_lines) = content
        /\ EndsOnLineBreak(content) =>
               LineText(styled_lines[Len(styled_lines)]) = <<>>

\* The first half of C1 alone, for every queue: no character is dropped,
\* duplicated or reordered.
ReconstructionOnly == Done => Rendered(styled_lines) = content

\* C2: for a well-formed queue no span of the result contains a line-break
\* character, also when a capture starts on a line break.
C2_NoLineBreakInSpan ==
    (Done /\ WellFormed(captures, TextLen)) =>
        \A span \in Spans(styled_lines) : ~HasLineBreak(span.content)

\* C3: for a well-formed queue every character covered by a capture that
\* is emitted in a span is emitted in a span with that capture's style,
\* including the characters flushed after the loop.
C3_CoveredStyle ==
    (Done /\ WellFormed(captures, TextLen)) =>
        \A k \in 1..Len(captures) : \A idx \in 0..(TextLen - 1) :
            (Covers(captures[k], idx) /\ Emitted(styled_lines, idx)) =>
                Cells(styled_lines)[idx + 1].style = captures[k].style

\* C4: for a well-formed queue every character covered by no capture is
\* emitted in a span with the default style.
C4_UncoveredStyle ==
    (Done /\ WellFormed(captures, TextLen)) =>
        \A idx \in 0..(TextLen - 1) :
            (Coverage(captures, idx) = {} /\ Emitted(styled_lines, idx)) =>
                Cells(styled_lines)[idx + 1].style \in DefaultStyles

\* C5: a capture whose range contains a line break gives, on every line
\* holding at least one of its characters, a span with the capture's style
\* on those characters, the last line of the text included.
C5_MultiLineContinuity ==
    (Done /\ WellFormed(captures, TextLen)) =>
        \A k \in 1..Len(captures) :
            (\E b \in 0..(TextLen - 1) :
                 Covers(captures[k], b) /\ is_endline(content[b + 1])) =>
            \A idx \in 0..(TextLen - 1) :
                (Covers(captures[k], idx) /\ Emitted(styled_lines, idx)) =>
                    \E other \in 0..(TextLen - 1) :
                        /\ Covers(captures[k], other)
                        /\ Emitted(styled_lines, other)
                        /\ Cells(styled_lines)[other + 1].ln
                               = Cells(styled_lines)[idx + 1].ln
                        /\ Cells(styled_lines)[other + 1].style
                               = captures[k].style

\* C6: for a well-formed queue the lines returned are the pieces of the
\* text between its line breaks: one more line than there are line breaks,
\* at least one line, and an empty last line for a text ending on a break.
C6_LineSplitting ==
    (Done /\ WellFormed(captures, TextLen)) =>
        /\ Len(styled_lines) = LineBreaks(content) + 1
        /\ LineTexts(styled_lines) = SplitLines(content, TextLen)

\* two spans a renderer cannot tell apart by style: the same style, or two
\* renderings of unstyled text
SameStyle(s, t) == s = t \/ (s \in DefaultStyles /\ t \in DefaultStyles)

\* C7: within one line no two consecutive spans carry the same style, so
\* unannotated text on one line comes out as a single default-styled span.
C7_MaximalRuns ==
    Done =>
        \A l \in 1..Len(styled_lines) :
            \A s \in 1..(Len(styled_lines[l]) - 1) :
                ~SameStyle(styled_lines[l][s].style,
                           styled_lines[l][s + 1].style)

\* C8: the empty text gives exactly one line holding at most one span,
\* empty and default-styled, whatever the queue of captures is.
C8_EmptyInput ==
    (Done /\ content = <<>>) =>
        /\ Len(styled_lines) = 1
        /\ Len(styled_lines[1]) <= 1
        /\ \A span \in Spans(styled_lines) :
               span.content = <<>> /\ span.style \in DefaultStyles
        /\ styled_lines = build_styled_content(<<>>, <<>>)

C8_Witness ==
    Done /\ content = <<>> /\ captures # <<>> /\ Len(styled_lines) = 1

\* the queue with every end past the text length moved to the text length
Clamped(q, len) ==
    [k \in 1..Len(q) |->
        IF q[k].end > len THEN [q[k] EXCEPT !.end = len] ELSE q[k]]

\* C9: whatever the endpoints of the captures are the scan stays inside the
\* text and completes, and the lines returned are those returned for the
\* queue whose out-of-range ends are replaced by the text length.
C9_Clamping ==
    /\ pc = "scan" => i <= TextLen
    /\ ~Done => ENABLED Next
    /\ Done => styled_lines = build_styled_content(content,
                                   Clamped(captures, TextLen))

C9_Witness ==
    /\ Done
    /\ captures # <<>>
    /\ captures[1].end > TextLen
    /\ \E span \in Spans(styled_lines) : span.style = captures[1].style

\* C10: for a well-formed queue no span mixes characters of different
\* coverage: the characters of one span are covered by the same capture
\* or by none.
C10_BoundariesRespected ==
    (Done /\ WellFormed(captures, TextLen)) =>
        \A x, y \in 0..(TextLen - 1) :
            (/\ Emitted(styled_lines, x)
             /\ Emitted(styled_lines, y)
             /\ Cells(styled_lines)[x + 1].ln = Cells(styled_lines)[y + 1].ln
             /\ Cells(styled_lines)[x + 1].sp = Cells(styled_lines)[y + 1].sp)
            => Coverage(captures, x) = Coverage(captures, y)

C10_Witness ==
    /\ Done
    /\ content = <<"a", "b", "a">>
    /\ captures = <<[start |-> 1, end |-> 2, style |-> "S1"]>>
    /\ styled_lines = << <<Span(<<"a">>, NormalWhite),
                           Span(<<"b">>, "S1"),
                           Span(<<"a">>, Unstyled)>> >>

\* ------------------------------------------- the decision table (C11)
\* The table of the per-character step as the specification writes it, on
\* the same scan state: active = st.capture, token, line, lines.

\* the default/fallback style the theme supplies for unannotated text
ThemeDefault == NormalWhite

\* the first row of the table whose condition holds, 1..9
TableRow(st, idx, c) ==
    LET active == st.capture
    IN  IF active # None /\ idx = active[1].start /\ st.token = <<>> THEN 1
        ELSE IF active # None /\ idx = active[1].start /\ st.token # <<>> THEN 2
        ELSE IF active # None /\ idx = active[1].end /\ is_endline(c) THEN 3
        ELSE IF active # None /\ idx = active[1].end /\ ~is_endline(c) THEN 4
        ELSE IF active # None /\ is_endline(c) THEN 5
        ELSE IF active # None THEN 6
        ELSE IF st.token # <<>> /\ ~is_endline(c) THEN 7
        ELSE IF is_endline(c) THEN 8
        ELSE 9

\* "flush token as a Run of the given style into line"
TableFlush(st, style) == Append(st.line, Span(st.token, style))

\* "pop active from the queue (next front becomes active, or none)"
TablePopActive(st) ==
    IF st.highlights = <<>> THEN None ELSE <<st.highlights[1]>>

TablePopQueue(st) ==
    IF st.highlights = <<>> THEN <<>>
    ELSE SubSeq(st.highlights, 2, Len(st.highlights))

\* the action of a row
TableAction(row, st, c) ==
    CASE row = 1 ->
           [st EXCEPT !.token = st.token \o <<c>>]
      [] row = 2 ->
           [st EXCEPT !.line = TableFlush(st, ThemeDefault), !.token = <<c>>]
      [] row = 3 ->
           [capture |-> TablePopActive(st), highlights |-> TablePopQueue(st),
            token |-> <<>>, line |-> <<>>,
            lines |-> st.lines \o <<TableFlush(st, st.capture[1].style)>>]
      [] row = 4 ->
           [capture |-> TablePopActive(st), highlights |-> TablePopQueue(st),
            token |-> <<c>>, line |-> TableFlush(st, st.capture[1].style),
            lines |-> st.lines]
      [] row = 5 ->
           [capture |-> st.capture, highlights |-> st.highlights,
            token |-> <<>>, line |-> <<>>,
            lines |-> st.lines \o <<TableFlush(st, st.capture[1].style)>>]
      [] row = 6 ->
           [st EXCEPT !.token = st.token \o <<c>>]
      [] row = 7 ->
           [st EXCEPT !.line = TableFlush(st, ThemeDefault), !.token = <<c>>]
      [] row = 8 ->
           [capture |-> st.capture, highlights |-> st.highlights,
            token |-> <<>>, line |-> <<>>,
            lines |-> st.lines \o <<TableFlush(st, ThemeDefault)>>]
      [] row = 9 ->
           [st EXCEPT !.token = st.token \o <<c>>]

TableStep(st, idx, c) == TableAction(TableRow(st, idx, c), st, c)

\* the loop is about to process the character at index i
Scanning == pc = "scan" /\ i < TextLen

\* C11: in every reachable scan state and for every character the code
\* does exactly what the first matching row of the decision table says,
\* the checks being ordered start, end, line break.
C11_RefinesTable ==
    [][Scanning => /\ St' = TableStep(St, i, content[i + 1])
                   /\ i' = i + 1]_vars

\* a scan that went through a start, an end on a line break and a pop
C11_Witness ==
    /\ Done
    /\ Len(captures) = 2
    /\ Len(styled_lines) = 2
    /\ current_capture = Some(captures[2])
    /\ \E span \in Spans(styled_lines) : span.style = NormalWhite

\* C12: after the last character the remaining token is the last span of
\* the last line, with the default style when no capture is current and
\* with the style of the current capture when one is.  Stated for the
\* well-formed queues and a token that holds text.
C12_FinalFlush ==
    (Done /\ WellFormed(captures, TextLen) /\ current_token # <<>>) =>
        LET last == styled_lines[Len(styled_lines)]
        IN  /\ last # <<>>
            /\ last[Len(last)].content = current_token
            /\ IF IsSome(current_capture)
               THEN last[Len(last)].style = Unwrap(current_capture).style
               ELSE last[Len(last)].style \in DefaultStyles

\* the captures not yet finished: the current one and the rest of the queue
Pending == current_capture \o highlights

\* C13: captures become current one at a time in queue order, each at most
\* once; the current capture is replaced only in the step that processes
\* the character at its end index, and a line break strictly inside a
\* capture leaves it current.
C13_QueueConsumption ==
    [][/\ pc = "init" => Pending' = captures
       /\ Scanning =>
            /\ Pending' = Pending \/ (Pending # <<>> /\ Pending' = Tail(Pending))
            /\ Pending' # Pending =>
                  (IsSome(current_capture) /\ i = Unwrap(current_capture).end)
            /\ (/\ IsSome(current_capture)
                /\ is_endline(content[i + 1])
                /\ Unwrap(current_capture).start < i
                /\ i < Unwrap(current_capture).end)
               => current_capture' = current_capture
       /\ pc \in {"scan", "done"} => Pending' = Pending \/ Scanning]_vars

\* the first capture held a line break strictly inside it, ended, and the
\* second one took its place
C13_Witness ==
    /\ Done
    /\ Len(captures) = 2
    /\ current_capture = Some(captures[2])
    /\ highlights = <<>>
    /\ \E b \in 0..(TextLen - 1) :
          /\ is_endline(content[b + 1])
          /\ captures[1].start < b
          /\ b < captures[1].end

\* the scan is at an index that ends the current capture and starts the
\* next one of the queue
AtSeam ==
    /\ Scanning
    /\ IsSome(current_capture)
    /\ i = Unwrap(current_capture).end
    /\ i # Unwrap(current_capture).start
    /\ highlights # <<>>
    /\ highlights[1].start = i

\* the span the step emits for the capture that ends
SeamSpan == Span(current_token, Unwrap(current_capture).style)

\* in the result, the characters before and at a seam index x sit in
\* consecutive spans of one line, and the span of x has the style of the
\* capture starting there when that capture ends inside the text
SeamsInResult ==
    (Done /\ WellFormed(captures, TextLen)) =>
        \A k \in 1..(Len(captures) - 1) :
            LET x == captures[k].end
            IN  (/\ captures[k + 1].start = x
                 /\ x < TextLen
                 /\ Emitted(styled_lines, x)) =>
                /\ (Emitted(styled_lines, x - 1)
                    /\ Cells(styled_lines)[x].ln = Cells(styled_lines)[x + 1].ln)
                   => Cells(styled_lines)[x + 1].sp = Cells(styled_lines)[x].sp + 1
                /\ captures[k + 1].end < TextLen =>
                       Cells(styled_lines)[x + 1].style = captures[k + 1].style

\* C14 as stated: at an index that is the end of capture a and the start of
\* the next capture b, the step emits a's token with a's style, makes b
\* current, and the character at that index becomes the first character of
\* the next token.
C14_Original ==
    [][AtSeam =>
          /\ \/ current_line' = Append(current_line, SeamSpan)
             \/ styled_lines' = Append(styled_lines,
                                       Append(current_line, SeamSpan))
          /\ current_capture' = Some(highlights[1])
          /\ current_token' = <<content[i + 1]>>]_vars

\* C14 as amended: the same, with the character at the seam starting the
\* next token unless it is a line break, in which case a's span closes the
\* line and the next token starts empty; in the result no default span
\* comes between a's span and the span of that character, which has b's
\* style when b ends inside the text.
C14_Amended ==
    /\ [][AtSeam =>
            /\ current_capture' = Some(highlights[1])
            /\ IF is_endline(content[i + 1])
               THEN /\ styled_lines' = Append(styled_lines,
                                              Append(current_line, SeamSpan))
                    /\ current_line' = <<>>
                    /\ current_token' = <<>>
               ELSE /\ current_line' = Append(current_line, SeamSpan)
                    /\ styled_lines' = styled_lines
                    /\ current_token' = <<content[i + 1]>>]_vars
    /\ [] SeamsInResult

\* two adjacent captures, the second ending inside the text
C14_Witness ==
    /\ Done
    /\ Len(captures) = 2
    /\ captures[1].end = captures[2].start
    /\ captures[2].end < TextLen
    /\ captures[1].style # captures[2].style
    /\ \E span \in Spans(styled_lines) : span.style = captures[2].style

\* C15: the highlighter lock is taken for read access only, the
\* highlighter is called exactly once and with the lock held, and the lock
\* is released before the scan: no step of the scan runs with it held.
C15_LockDiscipline ==
    /\ lock \in {"free", "read"}
    /\ pc = "apply" => lock = "read" /\ applied = 0
    /\ pc \in {"init", "scan", "done"} => lock = "free" /\ applied = 1

C15_Witness == pc = "scan" /\ i > 0 /\ lock = "free" /\ applied = 1

\* ============================================ the user interface at work
\* no build is under way while the user interface is followed
ScanAtRest ==
    /\ content = <<>>
    /\ captures = <<>>
    /\ highlights = <<>>
    /\ current_capture = None
    /\ current_token = <<>>
    /\ current_line = <<>>
    /\ styled_lines = <<>>
    /\ i = 0
    /\ lock = "free"
    /\ applied = 0
    /\ pc = "idle"

\* ScreenManager::new over the schemas found on disk
InitUI ==
    /\ ScanAtRest
    /\ \E schemas \in SortedSchemaLists : \E sz \in Sizes :
           ScreenManager_new(schemas, sz)

Running == panic = NoPanic

\* ScreenManager::update on the dashboard, line 40: one outcome of the key
Pressed(out) ==
    /\ WithinText(out.d)
    /\ dashboard' = out.d
    /\ returned' = out.ret
    /\ panic' = out.panic
    /\ UNCHANGED <<cur_screen, editor, size>>
    /\ UNCHANGED scanVars

\* a key while the help popup is shown, line 430-433
KeyHelp ==
    /\ Running
    /\ cur_screen = "Dashboard"
    /\ Route(dashboard) = "help"
    /\ \E key \in Keys : \E out \in handle_key_event(dashboard, key) :
           Pressed(out)

\* a key while the filter is edited, line 435-438
KeyFilter ==
    /\ Running
    /\ cur_screen = "Dashboard"
    /\ Route(dashboard) = "filter"
    /\ \E key \in TypingKeys : \E out \in handle_key_event(dashboard, key) :
           Pressed(out)

\* a key while the delete confirmation is shown, line 440-443
KeyConfirm ==
    /\ Running
    /\ cur_screen = "Dashboard"
    /\ Route(dashboard) = "confirm"
    /\ \E key \in Keys : \E out \in handle_key_event(dashboard, key) :
           Pressed(out)

\* a key while the error popup is shown, line 445-448
KeyError ==
    /\ Running
    /\ cur_screen = "Dashboard"
    /\ Route(dashboard) = "error"
    /\ \E key \in Keys : \E out \in handle_key_event(dashboard, key) :
           Pressed(out)

\* a key for the schema list, line 451
KeyList ==
    /\ Running
    /\ cur_screen = "Dashboard"
    /\ Route(dashboard) = "list"
    /\ \E key \in Keys : \E out \in handle_key_event(dashboard, key) :
           Pressed(out)

\* a key for the form, line 452
KeyForm ==
    /\ Running
    /\ cur_screen = "Dashboard"
    /\ Route(dashboard) = "form"
    /\ \E key \in TypingKeys : \E out \in handle_key_event(dashboard, key) :
           Pressed(out)

\* ScreenManager::update on the editor, line 39
UpdateEditor ==
    /\ Running
    /\ cur_screen = "Editor"
    /\ panic' = IF editor = None THEN UnwrapNone ELSE NoPanic
    /\ returned' = None
    /\ UNCHANGED <<cur_screen, editor, size, dashboard>>
    /\ UNCHANGED scanVars

\* ScreenManager::handle_command, line 44-55
HandleCommand ==
    /\ Running
    /\ \E command \in Commands :
           /\ cur_screen' = handle_command_Screen(command, cur_screen)
           /\ editor' = handle_command_Editor(command, editor, size)
           /\ dashboard' = handle_command_Dashboard(command, dashboard)
    /\ UNCHANGED <<size, returned, panic>>
    /\ UNCHANGED scanVars

\* ScreenManager::draw, line 59-66
Draw ==
    /\ Running
    /\ panic' = IF cur_screen = "Editor"
                THEN IF editor = None THEN UnwrapNone ELSE NoPanic
                ELSE Dashboard_draw(dashboard)
    /\ UNCHANGED <<cur_screen, editor, size, dashboard, returned>>
    /\ UNCHANGED scanVars

\* ScreenManager::register_command_handler, line 68-71
RegisterCommandHandler ==
    /\ Running
    /\ dashboard' = [dashboard EXCEPT !.sender = TRUE]
    /\ UNCHANGED <<cur_screen, editor, size, returned, panic>>
    /\ UNCHANGED scanVars

\* ScreenManager::resize, line 73-80
Resize ==
    /\ Running
    /\ \E new_size \in Sizes :
           /\ size' = new_size
           /\ dashboard' = [dashboard EXCEPT !.layout = new_size]
           /\ editor' = IF editor # None
                        THEN Some([Unwrap(editor) EXCEPT !.size = new_size])
                        ELSE editor
    /\ UNCHANGED <<cur_screen, returned, panic>>
    /\ UNCHANGED scanVars

NextUI ==
    \/ KeyHelp
    \/ KeyFilter
    \/ KeyConfirm
    \/ KeyError
    \/ KeyList
    \/ KeyForm
    \/ UpdateEditor
    \/ HandleCommand
    \/ Draw
    \/ RegisterCommandHandler
    \/ Resize

SpecUI == InitUI /\ [][NextUI]_vars


\* ------------------------------------------- reading the user interface
\* the selected index names a schema of the list
SelectionInBounds(d) ==
    selected(d) # None /\ Unwrap(selected(d)) < Len(d.schemas)

\* a step of ScreenManager::update on the dashboard
KeyStep == KeyHelp \/ KeyFilter \/ KeyConfirm \/ KeyError \/ KeyList \/ KeyForm

\* the step leaves every field of the dashboard outside the given ones alone
Frame(fields) ==
    \A f \in (DOMAIN dashboard) \ fields : dashboard'[f] = dashboard[f]

\* C16: the screen starts as Dashboard with no editor; whenever the current
\* screen is Editor the editor is present, so the unwrap of update and of
\* draw never fails; the screen changes only from Dashboard to Editor, in a
\* handle_command step that installs the editor in the same step.
C16_EditorPresent ==
    /\ cur_screen = "Dashboard" /\ editor = None
    /\ [](/\ cur_screen = "Editor" => editor # None
          /\ panic # UnwrapNone)
    /\ [][cur_screen' # cur_screen =>
              /\ HandleCommand
              /\ cur_screen = "Dashboard" /\ cur_screen' = "Editor"
              /\ editor' # None]_vars

\* the editor was installed by a command and has been updated and resized
C16_Witness ==
    /\ cur_screen = "Editor"
    /\ editor # None
    /\ Unwrap(editor).size # dashboard.layout \/ dashboard.show_error_popup
    /\ Running

\* C17: whenever the delete confirmation prompt is open a schema is selected
\* and the selected index is inside the schema list, so the expects of draw
\* and of the 'y' handler never fire.
C17_PromptHasSelection ==
    /\ dashboard.prompt_delete_current => SelectionInBounds(dashboard)
    /\ panic \notin {ExpectPopupSelected, ExpectPopupInBounds,
                     ExpectDeleteSelected, ExpectDeleteExisting}

\* C18: Enter with list focus returns no command when the schema list is
\* empty and SelectSchema of a schema of the list otherwise; the expect of
\* line 141 is never reached.
C18_EnterSelectsPresent ==
    [][KeyList =>
          /\ panic' # ExpectSelectExisting
          /\ returned' # None /\ Unwrap(returned').cmd = "SelectSchema" =>
                 \E k \in 1..Len(dashboard.schemas) :
                     dashboard.schemas[k] = Unwrap(returned').arg
          /\ dashboard.schemas = <<>> => returned' \in {None, Some(Quit)}]_vars

\* C19: the selected index is absent or smaller than the number of schemas,
\* and schemas.len() - 1 is never evaluated with an empty schema list.
C19_SelectionInBounds ==
    /\ selected(dashboard) = None \/ SelectionInBounds(dashboard)
    /\ panic # SubtractOverflow

\* the handler the priority help popup, filter input, delete confirmation,
\* error popup, focused pane gives a key
C20_Handler(d) ==
    CASE d.show_list_keymaps -> "help"
      [] ~d.show_list_keymaps /\ d.show_filter -> "filter"
      [] ~d.show_list_keymaps /\ ~d.show_filter /\ d.prompt_delete_current ->
             "confirm"
      [] ~d.show_list_keymaps /\ ~d.show_filter /\ ~d.prompt_delete_current
             /\ d.show_error_popup -> "error"
      [] OTHER -> IF d.pane_focus = "List" THEN "list" ELSE "form"

\* C20: a key event is handled by one handler, chosen in the priority help
\* popup, filter input, delete confirmation, error popup, focused pane: the
\* step changes only what that handler writes. A key while the help popup is
\* shown only closes the popup; a key handled by an overlay returns no
\* command and leaves the selection, the pane focus and the form alone.
C20_KeyRouting ==
    [][KeyStep =>
          LET h == C20_Handler(dashboard)
          IN  /\ h = "help" =>
                     /\ dashboard' = [dashboard EXCEPT
                                          !.show_list_keymaps = FALSE]
                     /\ returned' = None
              /\ h = "filter" =>
                     /\ Frame({"show_filter", "filter", "list_state"})
                     /\ selected(dashboard') = selected(dashboard)
                     /\ returned' = None
              /\ h = "confirm" =>
                     /\ Frame({"prompt_delete_current", "schemas",
                               "list_state"})
                     /\ returned' = None
              /\ h = "error" =>
                     /\ Frame({"show_error_popup"})
                     /\ returned' = None
              /\ h = "list" =>
                     Frame({"list_state", "prompt_delete_current",
                            "pane_focus", "show_list_keymaps", "show_filter"})
              /\ h = "form" => Frame({"form_state", "pane_focus"})]_vars

\* the filter took a character while the error popup was shown as well
C20_Witness ==
    /\ dashboard.show_filter
    /\ dashboard.show_error_popup
    /\ dashboard.filter # <<>>
    /\ Running

====
